---- MODULE Spec2Model ----
(***************************************************************************)
(* A model of decrypt_backup.py: the SecureTar decoder (password_to_key,   *)
(* generate_iv, class SecureTarFile, extract_secure_tar) and the           *)
(* processing loop of main.                                                *)
(*                                                                         *)
(* Bytes are the naturals 0..255 and byte strings are sequences of bytes.  *)
(* The three library primitives the program calls (hashlib.sha256, the     *)
(* AES-CBC decryptor of `cryptography`, tarfile's "r|gz" stream reader)    *)
(* are not part of the repository; they are modelled by small stand-ins    *)
(* that keep what the program relies on: a 32-byte digest that depends on  *)
(* every input byte, a keyed invertible 16-byte block transformation       *)
(* chained as CBC with the decryptor buffering incomplete blocks, and the  *)
(* order of the checks tarfile makes on the decrypted stream.              *)
(***************************************************************************)
EXTENDS Integers, Sequences, FiniteSets, TLC

VARIABLES
    \* ---- password_to_key run step by step (SpecKey)
    kpc,          \* "idle" | "loop" | "returned"
    kpass,        \* the str argument of the running call (code points)
    password,     \* the local variable `password` of password_to_key
    kround,       \* iterations of the for loop done so far
    kresult,      \* the value returned by the last finished call
    kprev,        \* <<argument, result>> of the call before, or <<>>
    kcalls,       \* finished calls
    \* ---- SecureTarFile.read driven by an arbitrary caller (SpecRead)
    rdata,        \* the bytes of the container file
    rpos,         \* position of self._file
    rctx,         \* self._decrypt: the CBC decryption context
    rout,         \* concatenation of everything read() returned so far
    rreq,         \* size argument of the last read call (-1: none yet)
    rret,         \* value returned by the last read call
    rpre,         \* <<unread source bytes, buffered bytes>> before the last call
    \* ---- extract_secure_tar and the loop of main (Spec, SpecOpen)
    mpc,          \* where main is: "tar_loop" | "file_loop" | "in_extract" | "end"
    mkey,         \* main's `key`: the passphrase of the emergency kit
    tarsSeen,     \* iterations of `for tar_file in tar_files` started
    filesSeen,    \* iterations of `for secure_tar in secure_tars` started
    success_count,
    deleted,      \* os.remove calls that succeeded
    cur,          \* the .tar.gz file at `filename`: [data, pass]
    curExists,    \* whether that file is still on disk
    spc,          \* where extract_secure_tar is
    spass,        \* its `password` argument
    obj,          \* the SecureTarFile object
    exc,          \* the exception in flight, or "none"
    branch,       \* the except clause taken: "ReadError" | "Exception" | "none"
    result,       \* the value returned: "dirname" | "None"
    cbc_rand,     \* __enter__'s local: the bytes read as the salt
    cstart,       \* position of self._file when the decryptor is created
    tarStarted,   \* tarfile.open has been called on the stream
    fed,          \* the bytes read() handed to the tar reader
    reopens,      \* times the client opened one object again (SpecOpen)
    prevIV        \* the IV of the context the client's open before created

varsK == <<kpc, kpass, password, kround, kresult, kprev, kcalls>>
varsR == <<rdata, rpos, rctx, rout, rreq, rret, rpre>>
varsM == <<mpc, mkey, tarsSeen, filesSeen, success_count, deleted, cur, curExists>>
varsS == <<spc, spass, obj, exc, branch, result, cbc_rand, cstart, tarStarted,
           fed, reopens, prevIV>>
vars  == <<varsK, varsR, varsM, varsS>>

----------------------------------------------------------------------------
(* Bounds of the model *)

\* longest passphrase, in characters
MaxPassLen == 2
\* calls of password_to_key in one run of SpecKey
MaxCalls == 2
\* longest ciphertext (the bytes after the salt) of a container read in SpecRead
MaxCipherLen == 34
\* the small read sizes tried in SpecRead, besides those around the block size
MaxSmallRead == 3
\* .tar files main finds
MaxTars == 2
\* .tar.gz files found in one extracted .tar
MaxPerTar == 2
\* times a client opens the same SecureTarFile object again
MaxReopen == 1

(* Program constants *)

\* range(100) in password_to_key
KeyRounds == 100
\* range(100) in generate_iv
IvRounds == 100
\* password[:16]
KeyLen == 16
\* temp_iv[:16]
IvLen == 16
\* self._file.read(16)
SaltLen == 16
\* block size of algorithms.AES
BlockSize == 16
\* digest size of hashlib.sha256
DigestLen == 32
\* tarfile.open's default bufsize (tarfile.RECORDSIZE): the size of every
\* read the tar reader makes on its fileobj
TarBufSize == 10240

----------------------------------------------------------------------------
(* Byte strings *)

Take(s, n) == SubSeq(s, 1, IF n < Len(s) THEN n ELSE Len(s))
Drop(s, n) == SubSeq(s, (IF n < Len(s) THEN n ELSE Len(s)) + 1, Len(s))

RECURSIVE Xor(_, _)
Xor(a, b) ==
    IF a = 0 THEN b
    ELSE IF b = 0 THEN a
    ELSE (((a % 2) + (b % 2)) % 2) + 2 * Xor(a \div 2, b \div 2)

\* The characters passphrases are made of: "A" (one byte in UTF-8) and
\* U+00E9 (two bytes in UTF-8).
Chars == {65, 233}

RECURSIVE StringsUpTo(_)
StringsUpTo(n) ==
    IF n = 0 THEN {<<>>}
    ELSE LET shorter == StringsUpTo(n - 1)
         IN shorter \cup {Append(s, c) : s \in shorter, c \in Chars}

Passphrases == StringsUpTo(MaxPassLen)

\* str.encode(): UTF-8
EncodeChar(cp) ==
    IF cp < 128 THEN <<cp>>
    ELSE IF cp < 2048 THEN <<192 + (cp \div 64), 128 + (cp % 64)>>
    ELSE <<224 + (cp \div 4096), 128 + ((cp \div 64) % 64), 128 + (cp % 64)>>

RECURSIVE encode(_)
encode(s) ==
    IF s = <<>> THEN <<>> ELSE EncodeChar(Head(s)) \o encode(Tail(s))

----------------------------------------------------------------------------
(* hashlib.sha256(m).digest(): 32 bytes, every one depending on the length *)
(* and on every byte of m and its place.                                   *)

RECURSIVE WeightedSum(_, _)
WeightedSum(m, i) ==
    IF i = 0 THEN 0
    ELSE (WeightedSum(m, i - 1) * 31 + m[i] + i) % 65521

RECURSIVE DigestBytes(_, _)
DigestBytes(s, j) ==
    IF j = 0 THEN <<>>
    ELSE Append(DigestBytes(s, j - 1),
                (s * (2 * j + 1) + (s \div 256) * j + j * j) % 256)

sha256(m) ==
    LET s == WeightedSum(m, Len(m)) + 7 * Len(m) + 11
    IN IF s >= 0 THEN DigestBytes(s, DigestLen) ELSE <<>>

----------------------------------------------------------------------------
(* password_to_key, as an operator *)

\* n rounds of `x = hashlib.sha256(x).digest()` starting from m.  The n
\* rounds are split in two halves, the first evaluated before the second, which
\* keeps the evaluation shallow.
RECURSIVE HashRounds(_, _)
HashRounds(m, n) ==
    IF n = 0 THEN m
    ELSE IF n = 1 THEN sha256(m)
    ELSE LET first == HashRounds(m, n \div 2)
         IN IF Len(first) >= 0 THEN HashRounds(first, n - (n \div 2)) ELSE <<>>

password_to_key(pw) == Take(HashRounds(encode(pw), KeyRounds), KeyLen)

(* generate_iv *)

generate_iv(key, salt) == Take(HashRounds(key \o salt, IvRounds), IvLen)

----------------------------------------------------------------------------
(* The AES-CBC decryptor: Cipher(algorithms.AES(key), modes.CBC(iv))       *)
(* .decryptor().  A context holds the key, the IV it was created with, the *)
(* chaining block (the IV, then the last ciphertext block decrypted) and   *)
(* the bytes of an incomplete block passed to update() so far.             *)

\* the block transformation and its inverse: a rotation of the block's
\* bytes and a bytewise addition of the key
AESEncryptBlock(key, x) ==
    [i \in 1..BlockSize |->
        LET j == ((i + BlockSize - 6) % BlockSize) + 1
        IN (x[j] + key[((j - 1) % Len(key)) + 1]) % 256]

AESDecryptBlock(key, c) ==
    [j \in 1..BlockSize |->
        (c[((j + 4) % BlockSize) + 1] + 256 - key[((j - 1) % Len(key)) + 1]) % 256]

XorBytes(a, b) == [j \in 1..Len(a) |-> Xor(a[j], b[j])]

decryptor(key, iv) == [key |-> key, iv |-> iv, prev |-> iv, buf |-> <<>>]

RECURSIVE DecryptBlocks(_, _, _)
DecryptBlocks(key, prev, bytes) ==
    IF Len(bytes) < BlockSize THEN <<>>
    ELSE LET c == Take(bytes, BlockSize)
         IN XorBytes(AESDecryptBlock(key, c), prev)
                \o DecryptBlocks(key, c, Drop(bytes, BlockSize))

\* update(data): the plaintext of every block completed by data
update_out(ctx, data) == DecryptBlocks(ctx.key, ctx.prev, ctx.buf \o data)

\* a decryptor that forgets the bytes of an incomplete block
update_ctx_nobuf(ctx, data) ==
    LET all == ctx.buf \o data
        n == Len(all) \div BlockSize
    IN [ctx EXCEPT !.prev = IF n = 0 THEN ctx.prev
                             ELSE SubSeq(all, (n - 1) * BlockSize + 1, n * BlockSize),
                   !.buf = <<>>]

\* update(data): the context afterwards
update_ctx(ctx, data) ==
    LET all == ctx.buf \o data
        n == Len(all) \div BlockSize
    IN [ctx EXCEPT !.prev = IF n = 0 THEN ctx.prev
                             ELSE SubSeq(all, (n - 1) * BlockSize + 1, n * BlockSize),
                   !.buf = Drop(all, n * BlockSize)]

\* CBC encryption, the inverse of the decryptor: what the backup tool did
\* to produce a container
RECURSIVE EncryptBlocks(_, _, _)
EncryptBlocks(key, prev, plain) ==
    IF Len(plain) < BlockSize THEN <<>>
    ELSE LET c == AESEncryptBlock(key, XorBytes(Take(plain, BlockSize), prev))
         IN c \o EncryptBlocks(key, c, Drop(plain, BlockSize))

----------------------------------------------------------------------------
(* io: self._file.read(size) of a file opened "rb" *)

FileRead(data, pos, size) ==
    SubSeq(data, pos + 1, IF pos + size < Len(data) THEN pos + size ELSE Len(data))

----------------------------------------------------------------------------
(* SpecKey: password_to_key, statement by statement *)

IdleK ==
    /\ kpc = "idle" /\ kpass = <<>> /\ password = <<>> /\ kround = 0
    /\ kresult = <<>> /\ kprev = <<>> /\ kcalls = 0

\* password = password.encode()
KeyCall(p) ==
    /\ kpc \in {"idle", "returned"}
    /\ kcalls < MaxCalls
    /\ kpass' = p
    /\ password' = encode(p)
    /\ kround' = 0
    /\ kpc' = "loop"
    /\ kprev' = IF kpc = "returned" THEN <<kpass, kresult>> ELSE kprev
    /\ UNCHANGED <<kresult, kcalls>>

\* a loop body that hashes the passphrase again instead of the last digest
KeyRoundNoChain ==
    /\ kpc = "loop"
    /\ kround < KeyRounds
    /\ password' = sha256(encode(kpass))
    /\ kround' = kround + 1
    /\ UNCHANGED <<kpc, kpass, kresult, kprev, kcalls>>

\* for _ in range(100): password = hashlib.sha256(password).digest()
KeyRound ==
    /\ kpc = "loop"
    /\ kround < KeyRounds
    /\ password' = sha256(password)
    /\ kround' = kround + 1
    /\ UNCHANGED <<kpc, kpass, kresult, kprev, kcalls>>

\* return password[:16]
KeyReturn ==
    /\ kpc = "loop"
    /\ kround = KeyRounds
    /\ kresult' = Take(password, KeyLen)
    /\ kpc' = "returned"
    /\ kcalls' = kcalls + 1
    /\ UNCHANGED <<kpass, password, kround, kprev>>

----------------------------------------------------------------------------
(* SpecRead: SecureTarFile.read called with arbitrary sizes on a container *)
(* that __enter__ has just opened (lines 82-89: the salt is read and the   *)
(* decryptor created; the caller of read is left open).                    *)

ReadByte(seed, i) == (seed * 37 + i * i * 11 + i * 5) % 256

ReadStreams ==
    {[i \in 1..(SaltLen + n) |-> ReadByte(seed, i)] :
        n \in 0..MaxCipherLen, seed \in {1, 2}}

ReadKey == password_to_key(<<65>>)

IdleR ==
    /\ rdata = <<>> /\ rpos = 0 /\ rctx = decryptor(<<>>, <<>>)
    /\ rout = <<>> /\ rreq = -1 /\ rret = <<>> /\ rpre = <<0, 0>>

ReadSizes(data) ==
    (0..MaxSmallRead) \cup {BlockSize - 1, BlockSize, BlockSize + 1}
        \cup {Len(data) - SaltLen}

\* def read(self, size=0): return self._decrypt.update(self._file.read(size))
read(size) ==
    LET chunk == FileRead(rdata, rpos, size)
    IN /\ rreq' = size
       /\ rpre' = <<Len(rdata) - rpos, Len(rctx.buf)>>
       /\ rpos' = rpos + Len(chunk)
       /\ rret' = update_out(rctx, chunk)
       /\ rctx' = update_ctx(rctx, chunk)
       /\ rout' = rout \o update_out(rctx, chunk)
       /\ UNCHANGED rdata

ReadCall == \E size \in ReadSizes(rdata) : read(size)

----------------------------------------------------------------------------
(* The tar reader: tarfile.open(fileobj=self, mode="r|gz") and extractall. *)
(* A decrypted stream is a 5-byte header (the gzip magic 1f 8b, the        *)
(* compression method 08, the size n of the member and a check byte of     *)
(* the header) followed by the n bytes of the member.  The reader makes    *)
(* tarfile's checks in tarfile's order.                                    *)

GzipMagic == <<31, 139>>

HeaderCheck(n) == (n * 7 + 5) % 256

\* the outcome of tarfile.open on the stream `p`: "none" (a TarFile is
\* returned) or the exception raised
TarOpenResult(p) ==
    IF Take(p, 2) # GzipMagic THEN "ReadError"              \* not a gzip file
    ELSE IF Len(p) < 3 \/ p[3] # 8 THEN "CompressionError"  \* unsupported method
    ELSE IF Len(p) < 5 \/ p[5] # HeaderCheck(p[4]) THEN "ReadError"  \* bad header
    ELSE "none"

\* the outcome of extractall on a stream tarfile.open accepted
TarExtractResult(p) ==
    IF Len(p) < 5 + p[4] THEN "ReadError"                   \* unexpected end of data
    ELSE "none"

----------------------------------------------------------------------------
(* The containers on disk.  A container is made by the backup tool: the    *)
(* salt, then the CBC encryption of the zero-padded tar stream under the   *)
(* key of the tool's passphrase and the IV of (key, salt).                 *)

RECURSIVE Zeros(_)
Zeros(n) == IF n = 0 THEN <<>> ELSE Append(Zeros(n - 1), 0)

Pad(p) == p \o Zeros((BlockSize - (Len(p) % BlockSize)) % BlockSize)

TarStream(n) ==
    <<31, 139, 8, n, HeaderCheck(n)>> \o [i \in 1..n |-> (i * 3) % 256]

MakerKey(pass) == SubSeq(HashRounds(encode(pass), 100), 1, 16)

MakerIV(key, salt) == SubSeq(HashRounds(key \o salt, 100), 1, 16)

Ciphertext(pass, salt, n) ==
    LET key == MakerKey(pass)
    IN EncryptBlocks(key, MakerIV(key, salt), Pad(TarStream(n)))

\* the magic of the versioned framing: "SecureTar", 02, six zero bytes
Magic == <<83, 101, 99, 117, 114, 101, 84, 97, 114, 2, 0, 0, 0, 0, 0, 0>>

Salt(a, b) == <<a, b, 0, 4, 5, 6, 7, 8, 9, 10, 11, 12, 13, 14, 15, 16>>

PassA == <<65>>
PassE == <<233>>
NoPass == <<0>>

LegacyFile(pass, salt, n) ==
    [data |-> salt \o Ciphertext(pass, salt, n), pass |-> pass]

VersionedFile(pass, salt, n) ==
    [data |-> Magic \o <<0, 0, 0, 0, 0, 0, 0, 16>> \o Zeros(8) \o salt
                  \o Ciphertext(pass, salt, n),
     pass |-> pass]

TruncatedFile(pass, salt, n, len) ==
    [data |-> Take(salt \o Ciphertext(pass, salt, n), len), pass |-> pass]

\* The files the model finds on disk: legacy containers of two passphrases
\* (the second with a salt for which the key of PassE decrypts the first
\* bytes to the gzip magic), a versioned container, a container cut inside
\* its member, and two files shorter than a salt.
Catalogue ==
    { LegacyFile(PassA, Salt(1, 2), 20),
      LegacyFile(PassA, Salt(205, 245), 3),
      LegacyFile(PassE, Salt(7, 7), 3),
      VersionedFile(PassA, Salt(1, 2), 3),
      TruncatedFile(PassA, Salt(1, 2), 20, 2 * BlockSize),
      [data |-> <<1, 2, 3, 4, 5>>, pass |-> NoPass],
      [data |-> <<>>, pass |-> NoPass] }

NoFile == [data |-> <<>>, pass |-> NoPass]

----------------------------------------------------------------------------
(* class SecureTarFile and extract_secure_tar *)

NoDecryptor == decryptor(<<>>, <<>>)

NoObj == [file |-> "none", pos |-> 0, tar |-> "none", aes |-> FALSE,
          key |-> <<>>, decrypt |-> NoDecryptor]

IdleS ==
    /\ spc = "idle" /\ spass = <<>> /\ obj = NoObj /\ exc = "none"
    /\ branch = "none" /\ result = "None" /\ cbc_rand = <<>> /\ cstart = 0
    /\ tarStarted = FALSE /\ fed = <<>> /\ reopens = 0 /\ prevIV = <<>>

IdleM ==
    /\ mpc = "idle" /\ mkey = <<>> /\ tarsSeen = 0 /\ filesSeen = 0
    /\ success_count = 0 /\ deleted = 0 /\ cur = NoFile /\ curExists = FALSE

\* the session's bookkeeping when a `with` statement starts
Fresh ==
    /\ exc' = "none" /\ branch' = "none" /\ result' = "None"
    /\ cbc_rand' = <<>> /\ cstart' = 0 /\ tarStarted' = FALSE /\ fed' = <<>>

\* SecureTarFile.__init__
Construct ==
    /\ spc = "init"
    /\ obj' = [NoObj EXCEPT !.key = password_to_key(spass)]
    /\ spc' = "enter"
    /\ UNCHANGED <<spass, exc, branch, result, cbc_rand, cstart, tarStarted,
                   fed, reopens, prevIV>>
    /\ UNCHANGED varsM

\* a decoder that keeps the cipher of the first container it opened
new_decryptor_cached(o, salt) ==
    IF o.aes THEN [o.decrypt EXCEPT !.prev = o.decrypt.iv, !.buf = <<>>]
    ELSE decryptor(o.key, generate_iv(o.key, salt))

\* self._aes = Cipher(AES(self._key), CBC(generate_iv(self._key, cbc_rand)));
\* self._decrypt = self._aes.decryptor()
new_decryptor(o, salt) == decryptor(o.key, generate_iv(o.key, salt))

\* SecureTarFile.__enter__, tarfile.open and the reads it makes included.
\* Every container of the model is shorter than TarBufSize, so the reader's
\* first read(TarBufSize) takes the file to its end and every later one
\* returns b"".  When tarfile.open raises, __enter__ raises: the `with`
\* statement does not call __exit__.
Enter ==
    /\ spc = "enter"
    /\ \E ctx \in {new_decryptor(obj, FileRead(cur.data, 0, SaltLen))} :
       LET salt == FileRead(cur.data, 0, SaltLen)
           chunk == FileRead(cur.data, Len(salt), TarBufSize)
           p == update_out(ctx, chunk)
           r == TarOpenResult(p)
       IN /\ cbc_rand' = salt
          /\ cstart' = Len(salt)
          /\ fed' = p
          /\ tarStarted' = TRUE
          /\ obj' = [obj EXCEPT !.file = "open",
                                !.pos = Len(salt) + Len(chunk),
                                !.aes = TRUE,
                                !.decrypt = update_ctx(ctx, chunk),
                                !.tar = IF r = "none" THEN "open" ELSE "none"]
          /\ exc' = r
          /\ spc' = IF r = "none" THEN "body" ELSE "except"
    /\ UNCHANGED <<spass, branch, result, reopens, prevIV>>
    /\ UNCHANGED varsM

\* _tar.extractall(path=_dirname): the member is cut short (ReadError), or
\* writing it out fails (OSError), or it is extracted
ExtractAll ==
    /\ spc = "body"
    /\ \/ exc' = TarExtractResult(fed)
       \/ exc' = "OSError"
    /\ spc' = "exit"
    /\ UNCHANGED <<spass, obj, branch, result, cbc_rand, cstart, tarStarted,
                   fed, reopens, prevIV>>
    /\ UNCHANGED varsM

\* SecureTarFile.__exit__: it returns None, so an exception of the body
\* goes on to the except clauses
Exit ==
    /\ spc = "exit"
    /\ obj' = [obj EXCEPT !.tar = IF obj.tar = "open" THEN "closed" ELSE obj.tar,
                          !.file = IF obj.file = "open" THEN "closed" ELSE obj.file]
    /\ spc' = IF exc = "none" THEN "return" ELSE "except"
    /\ UNCHANGED <<spass, exc, branch, result, cbc_rand, cstart, tarStarted,
                   fed, reopens, prevIV>>
    /\ UNCHANGED varsM

\* an except clause that returns the directory name all the same
ExceptReturnsDirname ==
    /\ spc = "except"
    /\ branch' = IF exc = "ReadError" THEN "ReadError" ELSE "Exception"
    /\ result' = "dirname"
    /\ spc' = "returned"
    /\ UNCHANGED <<spass, obj, exc, cbc_rand, cstart, tarStarted, fed, reopens, prevIV>>
    /\ UNCHANGED varsM

\* except tarfile.ReadError: ... return None / except Exception: ... return None
Except ==
    /\ spc = "except"
    /\ branch' = IF exc = "ReadError" THEN "ReadError" ELSE "Exception"
    /\ result' = "None"
    /\ spc' = "returned"
    /\ UNCHANGED <<spass, obj, exc, cbc_rand, cstart, tarStarted, fed, reopens, prevIV>>
    /\ UNCHANGED varsM

\* return _dirname: the name of the file without ".tar.gz", never empty
\* for a path main's glob gives
Return ==
    /\ spc = "return"
    /\ result' = "dirname"
    /\ spc' = "returned"
    /\ UNCHANGED <<spass, obj, exc, branch, cbc_rand, cstart, tarStarted,
                   fed, reopens, prevIV>>
    /\ UNCHANGED varsM

\* The file object of a session whose __enter__ raised is closed by nobody:
\* the runtime closes it when it finalizes the unreachable object, at a time
\* the language does not fix.
Finalize ==
    /\ spc = "returned"
    /\ obj.file = "open"
    /\ obj' = [obj EXCEPT !.file = "closed"]
    /\ UNCHANGED <<spc, spass, exc, branch, result, cbc_rand, cstart, tarStarted,
                   fed, reopens, prevIV>>
    /\ UNCHANGED varsM

----------------------------------------------------------------------------
(* main, lines 220-242: the loop over the .tar files and, in each, over    *)
(* the .tar.gz files.  What the two globs find is the environment's        *)
(* choice, made when the loop reaches it.                                  *)

\* the passphrases main is run with
MainKeys == {PassA, PassE}

InitMain ==
    /\ mpc = "tar_loop"
    /\ mkey \in MainKeys
    /\ tarsSeen = 0 /\ filesSeen = 0 /\ success_count = 0 /\ deleted = 0
    /\ cur = NoFile /\ curExists = FALSE

\* for tar_file in tar_files: extract_tar(tar_file) raises; the except
\* clause of the loop body prints and the loop goes on
MainTarFails ==
    /\ mpc = "tar_loop"
    /\ spc = "idle"
    /\ tarsSeen < MaxTars
    /\ tarsSeen' = tarsSeen + 1
    /\ UNCHANGED <<mpc, mkey, filesSeen, success_count, deleted, cur, curExists>>
    /\ UNCHANGED varsS

\* for tar_file in tar_files: _dirname = extract_tar(tar_file);
\* secure_tars = glob.glob(...)
MainNextTar ==
    /\ mpc = "tar_loop"
    /\ spc = "idle"
    /\ tarsSeen < MaxTars
    /\ tarsSeen' = tarsSeen + 1
    /\ filesSeen' = 0
    /\ mpc' = "file_loop"
    /\ UNCHANGED <<mkey, success_count, deleted, cur, curExists>>
    /\ UNCHANGED varsS

\* tar_files is exhausted (main exits before the loop when it is empty)
MainEnd ==
    /\ mpc = "tar_loop"
    /\ spc = "idle"
    /\ tarsSeen >= 1
    /\ mpc' = "end"
    /\ UNCHANGED <<mkey, tarsSeen, filesSeen, success_count, deleted, cur, curExists>>
    /\ UNCHANGED varsS

\* for secure_tar in secure_tars: extract_secure_tar(secure_tar, key) is called
MainNextFile(c) ==
    /\ mpc = "file_loop"
    /\ filesSeen < MaxPerTar
    /\ filesSeen' = filesSeen + 1
    /\ cur' = c
    /\ curExists' = TRUE
    /\ mpc' = "in_extract"
    /\ spass' = mkey
    /\ spc' = "init"
    /\ obj' = NoObj
    /\ Fresh
    /\ UNCHANGED <<mkey, tarsSeen, success_count, deleted, reopens, prevIV>>
    /\ UNCHANGED varsK /\ UNCHANGED varsR

\* secure_tars is empty (`continue`) or exhausted
MainEndFiles ==
    /\ mpc = "file_loop"
    /\ mpc' = "tar_loop"
    /\ UNCHANGED <<mkey, tarsSeen, filesSeen, success_count, deleted, cur, curExists>>
    /\ UNCHANGED varsS

\* if extract_secure_tar(...): os.remove(secure_tar); success_count += 1.
\* os.remove succeeds, or raises and the except clause of the outer loop
\* body ends the work on this .tar file.
MainRemove ==
    /\ mpc = "in_extract"
    /\ spc = "returned"
    /\ result # "None"
    /\ \/ /\ curExists' = FALSE
          /\ deleted' = deleted + 1
          /\ success_count' = success_count + 1
          /\ mpc' = "file_loop"
       \/ /\ mpc' = "tar_loop"
          /\ UNCHANGED <<curExists, deleted, success_count>>
    /\ spc' = "idle"
    /\ obj' = NoObj
    /\ UNCHANGED <<mkey, tarsSeen, filesSeen, cur>>
    /\ UNCHANGED <<spass, exc, branch, result, cbc_rand, cstart, tarStarted,
                   fed, reopens, prevIV>>

\* if extract_secure_tar(...) is None: the loop goes to the next file
MainSkip ==
    /\ mpc = "in_extract"
    /\ spc = "returned"
    /\ result = "None"
    /\ mpc' = "file_loop"
    /\ spc' = "idle"
    /\ obj' = NoObj
    /\ UNCHANGED <<mkey, tarsSeen, filesSeen, success_count, deleted, cur, curExists>>
    /\ UNCHANGED <<spass, exc, branch, result, cbc_rand, cstart, tarStarted,
                   fed, reopens, prevIV>>

----------------------------------------------------------------------------
(* SpecOpen: a client that uses SecureTarFile as extract_secure_tar does,  *)
(* with any passphrase on any file, and that may open the same object      *)
(* again, the file at its path rewritten or not in between.                *)

ClientConstruct(c, p) ==
    /\ spc \in {"idle", "returned"}
    /\ cur' = c
    /\ curExists' = TRUE
    /\ spass' = p
    /\ spc' = "init"
    /\ obj' = NoObj
    /\ reopens' = 0
    /\ prevIV' = <<>>
    /\ Fresh
    /\ UNCHANGED <<mpc, mkey, tarsSeen, filesSeen, success_count, deleted>>

ClientReopen(c) ==
    /\ spc = "returned"
    /\ reopens < MaxReopen
    /\ reopens' = reopens + 1
    /\ prevIV' = obj.decrypt.iv
    /\ cur' = c
    /\ spc' = "enter"
    /\ Fresh
    /\ UNCHANGED <<spass, obj, curExists>>
    /\ UNCHANGED <<mpc, mkey, tarsSeen, filesSeen, success_count, deleted>>

----------------------------------------------------------------------------
(* Specifications *)

Others == UNCHANGED <<varsK, varsR>>

Init == IdleK /\ IdleR /\ InitMain /\ IdleS

Next ==
    \/ Construct /\ Others
    \/ Enter /\ Others
    \/ ExtractAll /\ Others
    \/ Exit /\ Others
    \/ Except /\ Others
    \/ Return /\ Others
    \/ Finalize /\ Others
    \/ MainTarFails /\ Others
    \/ MainNextTar /\ Others
    \/ MainEnd /\ Others
    \/ \E c \in Catalogue : MainNextFile(c)
    \/ MainEndFiles /\ Others
    \/ MainRemove /\ Others
    \/ MainSkip /\ Others

Spec == Init /\ [][Next]_vars

\* the passphrases the client constructs decoders with
ClientKeys == {<<>>, PassA, PassE}

InitOpen == IdleK /\ IdleR /\ IdleM /\ IdleS

NextOpen ==
    \/ Construct /\ Others
    \/ Enter /\ Others
    \/ ExtractAll /\ Others
    \/ Exit /\ Others
    \/ Except /\ Others
    \/ Return /\ Others
    \/ Finalize /\ Others
    \/ \E c \in Catalogue, p \in ClientKeys : ClientConstruct(c, p) /\ Others
    \/ \E c \in Catalogue : ClientReopen(c) /\ Others

SpecOpen == InitOpen /\ [][NextOpen]_vars

InitKey == IdleK /\ IdleR /\ IdleM /\ IdleS

NextKey ==
    \/ \E p \in Passphrases : KeyCall(p) /\ UNCHANGED <<varsR, varsM, varsS>>
    \/ KeyRound /\ UNCHANGED <<varsR, varsM, varsS>>
    \/ KeyReturn /\ UNCHANGED <<varsR, varsM, varsS>>

SpecKey == InitKey /\ [][NextKey]_vars

InitRead ==
    /\ IdleK /\ IdleM /\ IdleS
    /\ rdata \in ReadStreams
    /\ rpos = SaltLen
    /\ rctx = decryptor(ReadKey, generate_iv(ReadKey, FileRead(rdata, 0, SaltLen)))
    /\ rout = <<>>
    /\ rreq = -1
    /\ rret = <<>>
    /\ rpre = <<0, 0>>

NextRead == ReadCall /\ UNCHANGED <<varsK, varsM, varsS>>

SpecRead == InitRead /\ [][NextRead]_vars

----------------------------------------------------------------------------
(* Claims about opening a container (Spec, SpecOpen) *)

\* __enter__ has run in the current session
Entered == spc \in {"body", "exit", "except", "return", "returned"}

\* C1 (as claimed): a stream that starts with the magic is parsed as
\* Versioned, its salt being the 16 bytes after the magic, the size and the
\* reserved bytes and the ciphertext starting after that salt; any other
\* stream is parsed as Legacy, its first 16 bytes being the salt and the
\* ciphertext starting at byte 16.
C1_HeaderFraming ==
    (Entered /\ Len(cur.data) >= 16) =>
        IF SubSeq(cur.data, 1, 16) = Magic
        THEN cbc_rand = SubSeq(cur.data, 33, 48) /\ cstart = 48
        ELSE cbc_rand = SubSeq(cur.data, 1, 16) /\ cstart = 16

\* C2 (as claimed): opening a source of fewer than 16 bytes ends in the
\* TruncatedHeader failure, with no IV derived and no cipher context created
\* from the short salt and the tar reader never started.
C2_TruncatedHeader ==
    (Entered /\ Len(cur.data) < 16) =>
        /\ exc = "TruncatedHeader"
        /\ ~obj.aes
        /\ ~tarStarted

\* C3 (as claimed): decoding a container with another key than the one it
\* was encrypted with always ends in the tarfile.ReadError branch of
\* extract_secure_tar, which returns None.
C3_WrongKeyIsReadError ==
    (spc = "returned" /\ cur.pass # NoPass /\ cur.pass # spass) =>
        (branch = "ReadError" /\ result = "None")

\* C8: in any sequence of opens, with the same or another key, on the same
\* or another decoder object, the cipher context that decrypts a container
\* is keyed with the decoder's key and its IV is the first 16 bytes of 100
\* hash rounds over that key followed by the salt read from the start of
\* this container; it is never the IV of a container opened before.
C8_FreshIV ==
    Entered =>
        /\ obj.aes
        /\ obj.decrypt.key = obj.key
        /\ obj.decrypt.iv =
              SubSeq(HashRounds(obj.key \o SubSeq(cur.data, 1,
                        IF Len(cur.data) < 16 THEN Len(cur.data) ELSE 16), 100), 1, 16)

\* C8 witness: one decoder object has been opened a second time, on a
\* container with another salt, and decrypts it with another IV than the
\* first time.
C8_Witness ==
    /\ spc = "body"
    /\ reopens = 1
    /\ prevIV # <<>>
    /\ prevIV # obj.decrypt.iv

\* C9 (as claimed): no session ends with the source file still open.
C9_SourceClosedAtEnd == (spc = "returned") => (obj.file # "open")

----------------------------------------------------------------------------
(* Claims about the loop of main (Spec) *)

C10_Step ==
    /\ (curExists /\ ~curExists') => (spc = "returned" /\ result = "dirname" /\ exc = "none")
    /\ (spc = "returned" /\ (result = "None" \/ exc # "none") /\ spc' = "idle") =>
            (curExists' /\ deleted' = deleted /\ mpc' = "file_loop")
    /\ (mpc' = "end") => (success_count' = deleted')

\* C10: a .tar.gz file is deleted only when its extraction succeeded; after
\* a failed extraction the file is still there and the loop goes on with
\* the next file; when main ends, success_count is the number of files
\* deleted.
C10_DeleteOnlyOnSuccess == [][C10_Step]_vars

\* C10 witness: main has ended after one .tar file with two .tar.gz files,
\* the first left in place after its extraction failed, the second
\* extracted, deleted and counted.
C10_Witness ==
    /\ mpc = "end"
    /\ tarsSeen = 1
    /\ filesSeen = 2
    /\ success_count = 1
    /\ deleted = 1
    /\ result = "dirname"
    /\ ~curExists

----------------------------------------------------------------------------
(* Claims about SecureTarFile.read (SpecRead) *)

\* the plaintext one read of the whole ciphertext returns from a cursor
\* that has just been opened
WholeRead ==
    update_out(decryptor(rctx.key, rctx.iv), FileRead(rdata, SaltLen, Len(rdata)))

\* C4: once successive read calls of any sizes have exhausted the source,
\* the concatenation of what they returned equals what one single read of
\* the whole stream returns.
C4_ChunkedEqualsWhole == (rpos = Len(rdata)) => (rout = WholeRead)

\* C4 witness: a stream of two blocks and a partial one has been read to its
\* end in pieces, the last read being of one byte.
C4_Witness ==
    /\ rpos = Len(rdata)
    /\ Len(rdata) = SaltLen + 2 * BlockSize + 2
    /\ rreq = 1
    /\ rpre[1] = 1
    /\ Len(rout) = 2 * BlockSize

\* C5 (as claimed): every read(size) returns between 0 and size bytes.
C5_AtMostRequested == (rreq >= 0) => (Len(rret) <= rreq)

\* C6 (as claimed): a read of a positive size returns nothing only when the
\* stream has ended: the source held no unread byte and the decryption
\* context no buffered input when the read was made.
C6_EmptyOnlyAtEnd ==
    (rreq > 0 /\ rret = <<>>) => (rpre[1] = 0 /\ rpre[2] = 0)

----------------------------------------------------------------------------
(* Claims about password_to_key (SpecKey) *)

\* C7: for every passphrase, the empty one included, the key returned is
\* the first 16 bytes of the hash applied 100 times in a chain starting
\* from the encoded passphrase, it is 16 bytes long, and a second call with
\* the same passphrase returns the same key.
C7_KeyIsChainPrefix ==
    (kpc = "returned") =>
        /\ Len(kresult) = 16
        /\ kresult = SubSeq(HashRounds(encode(kpass), 100), 1, 16)
        /\ (kprev # <<>> /\ kprev[1] = kpass) => (kprev[2] = kresult)

\* C7 witness: the key of the empty passphrase has been derived twice in a row.
C7_Witness ==
    /\ kpc = "returned"
    /\ kpass = <<>>
    /\ kprev # <<>>
    /\ kprev[1] = <<>>
    /\ kcalls = 2

====
